---- MODULE Spec2Model ----
(* Model of src/error/lib.rs: the LibError enumeration, the fallible         *)
(* conversion TryFrom<LibErrorCode> for LibError, and LibError::strerror,    *)
(* which asks libbtrfsutil for the description of an error code.             *)
EXTENDS Integers, Sequences, FiniteSets, TLC

(* ------------------------------------------------------------------------ *)
(* Bounds of the model                                                       *)
(* ------------------------------------------------------------------------ *)

\* try_from is applied to every code in 0..MaxCode and to the codes of BigCodes
MaxCode == 28

\* number of concurrent callers in SpecConc
NProcs == 2

\* codes far above the range, up to the largest integer TLC represents
\* (LibErrorCode is u32; try_from treats every code above 26 alike)
BigCodes == {99, 1000, 2147483647}

Codes == (0 .. MaxCode) \cup BigCodes

(* ------------------------------------------------------------------------ *)
(* The error codes of libbtrfsutil and the enumeration                       *)
(* ------------------------------------------------------------------------ *)

\* bindings::btrfs_util_error_*: the values of enum btrfs_util_error, which
\* the C header numbers from 0 in the order the enumeration below mirrors
bindings ==
    [BTRFS_UTIL_OK |-> 0,
     BTRFS_UTIL_ERROR_STOP_ITERATION |-> 1,
     BTRFS_UTIL_ERROR_NO_MEMORY |-> 2,
     BTRFS_UTIL_ERROR_INVALID_ARGUMENT |-> 3,
     BTRFS_UTIL_ERROR_NOT_BTRFS |-> 4,
     BTRFS_UTIL_ERROR_NOT_SUBVOLUME |-> 5,
     BTRFS_UTIL_ERROR_SUBVOLUME_NOT_FOUND |-> 6,
     BTRFS_UTIL_ERROR_OPEN_FAILED |-> 7,
     BTRFS_UTIL_ERROR_RMDIR_FAILED |-> 8,
     BTRFS_UTIL_ERROR_UNLINK_FAILED |-> 9,
     BTRFS_UTIL_ERROR_STAT_FAILED |-> 10,
     BTRFS_UTIL_ERROR_STATFS_FAILED |-> 11,
     BTRFS_UTIL_ERROR_SEARCH_FAILED |-> 12,
     BTRFS_UTIL_ERROR_INO_LOOKUP_FAILED |-> 13,
     BTRFS_UTIL_ERROR_SUBVOL_GETFLAGS_FAILED |-> 14,
     BTRFS_UTIL_ERROR_SUBVOL_SETFLAGS_FAILED |-> 15,
     BTRFS_UTIL_ERROR_SUBVOL_CREATE_FAILED |-> 16,
     BTRFS_UTIL_ERROR_SNAP_CREATE_FAILED |-> 17,
     BTRFS_UTIL_ERROR_SNAP_DESTROY_FAILED |-> 18,
     BTRFS_UTIL_ERROR_DEFAULT_SUBVOL_FAILED |-> 19,
     BTRFS_UTIL_ERROR_SYNC_FAILED |-> 20,
     BTRFS_UTIL_ERROR_START_SYNC_FAILED |-> 21,
     BTRFS_UTIL_ERROR_WAIT_SYNC_FAILED |-> 22,
     BTRFS_UTIL_ERROR_GET_SUBVOL_INFO_FAILED |-> 23,
     BTRFS_UTIL_ERROR_GET_SUBVOL_ROOTREF_FAILED |-> 24,
     BTRFS_UTIL_ERROR_INO_LOOKUP_USER_FAILED |-> 25,
     BTRFS_UTIL_ERROR_FS_INFO_FAILED |-> 26]

\* the variants of enum LibError
LibError ==
    {"Ok", "StopIteration", "NoMemory", "InvalidArgument",
     "NotBtrfs", "NotSubvolume", "SubvolumeNotFound", "OpenFailed",
     "RmdirFailed", "UnlinkFailed", "StatFailed", "StatfsFailed",
     "SearchFailed", "InoLookupFailed", "SubvolGetflagsFailed", "SubvolSetflagsFailed",
     "SubvolCreateFailed", "SnapCreateFailed", "SnapDestroyFailed", "DefaultSubvolFailed",
     "SyncFailed", "StartSyncFailed", "WaitSyncFailed", "GetSubvolInfoFailed",
     "GetSubvolRootrefFailed", "InoLookupUserFailed", "FsInfoFailed"}

\* the discriminant the declaration pins to each variant
Discriminant ==
    [Ok |-> bindings.BTRFS_UTIL_OK,
     StopIteration |-> bindings.BTRFS_UTIL_ERROR_STOP_ITERATION,
     NoMemory |-> bindings.BTRFS_UTIL_ERROR_NO_MEMORY,
     InvalidArgument |-> bindings.BTRFS_UTIL_ERROR_INVALID_ARGUMENT,
     NotBtrfs |-> bindings.BTRFS_UTIL_ERROR_NOT_BTRFS,
     NotSubvolume |-> bindings.BTRFS_UTIL_ERROR_NOT_SUBVOLUME,
     SubvolumeNotFound |-> bindings.BTRFS_UTIL_ERROR_SUBVOLUME_NOT_FOUND,
     OpenFailed |-> bindings.BTRFS_UTIL_ERROR_OPEN_FAILED,
     RmdirFailed |-> bindings.BTRFS_UTIL_ERROR_RMDIR_FAILED,
     UnlinkFailed |-> bindings.BTRFS_UTIL_ERROR_UNLINK_FAILED,
     StatFailed |-> bindings.BTRFS_UTIL_ERROR_STAT_FAILED,
     StatfsFailed |-> bindings.BTRFS_UTIL_ERROR_STATFS_FAILED,
     SearchFailed |-> bindings.BTRFS_UTIL_ERROR_SEARCH_FAILED,
     InoLookupFailed |-> bindings.BTRFS_UTIL_ERROR_INO_LOOKUP_FAILED,
     SubvolGetflagsFailed |-> bindings.BTRFS_UTIL_ERROR_SUBVOL_GETFLAGS_FAILED,
     SubvolSetflagsFailed |-> bindings.BTRFS_UTIL_ERROR_SUBVOL_SETFLAGS_FAILED,
     SubvolCreateFailed |-> bindings.BTRFS_UTIL_ERROR_SUBVOL_CREATE_FAILED,
     SnapCreateFailed |-> bindings.BTRFS_UTIL_ERROR_SNAP_CREATE_FAILED,
     SnapDestroyFailed |-> bindings.BTRFS_UTIL_ERROR_SNAP_DESTROY_FAILED,
     DefaultSubvolFailed |-> bindings.BTRFS_UTIL_ERROR_DEFAULT_SUBVOL_FAILED,
     SyncFailed |-> bindings.BTRFS_UTIL_ERROR_SYNC_FAILED,
     StartSyncFailed |-> bindings.BTRFS_UTIL_ERROR_START_SYNC_FAILED,
     WaitSyncFailed |-> bindings.BTRFS_UTIL_ERROR_WAIT_SYNC_FAILED,
     GetSubvolInfoFailed |-> bindings.BTRFS_UTIL_ERROR_GET_SUBVOL_INFO_FAILED,
     GetSubvolRootrefFailed |-> bindings.BTRFS_UTIL_ERROR_GET_SUBVOL_ROOTREF_FAILED,
     InoLookupUserFailed |-> bindings.BTRFS_UTIL_ERROR_INO_LOOKUP_USER_FAILED,
     FsInfoFailed |-> bindings.BTRFS_UTIL_ERROR_FS_INFO_FAILED]

\* the #[error("...")] text of each variant, as UTF-8 bytes
Display ==
    [\* "Success"
     Ok |-> <<83, 117, 99, 99, 101, 115, 115>>,
     \* "Stop iteration"
     StopIteration |-> <<83, 116, 111, 112, 32, 105, 116, 101, 114, 97, 116, 105, 111, 110>>,
     \* "Cannot allocate memory"
     NoMemory |-> <<67, 97, 110, 110, 111, 116, 32, 97, 108, 108, 111, 99, 97, 116, 101, 32, 109, 101, 109, 111, 114, 121>>,
     \* "Invalid argument"
     InvalidArgument |-> <<73, 110, 118, 97, 108, 105, 100, 32, 97, 114, 103, 117, 109, 101, 110, 116>>,
     \* "Not a Btrfs filesystem"
     NotBtrfs |-> <<78, 111, 116, 32, 97, 32, 66, 116, 114, 102, 115, 32, 102, 105, 108, 101, 115, 121, 115, 116, 101, 109>>,
     \* "Not a Btrfs subvolume"
     NotSubvolume |-> <<78, 111, 116, 32, 97, 32, 66, 116, 114, 102, 115, 32, 115, 117, 98, 118, 111, 108, 117, 109, 101>>,
     \* "Subvolume not found"
     SubvolumeNotFound |-> <<83, 117, 98, 118, 111, 108, 117, 109, 101, 32, 110, 111, 116, 32, 102, 111, 117, 110, 100>>,
     \* "Could not open"
     OpenFailed |-> <<67, 111, 117, 108, 100, 32, 110, 111, 116, 32, 111, 112, 101, 110>>,
     \* "Could not rmdir"
     RmdirFailed |-> <<67, 111, 117, 108, 100, 32, 110, 111, 116, 32, 114, 109, 100, 105, 114>>,
     \* "Could not unlink"
     UnlinkFailed |-> <<67, 111, 117, 108, 100, 32, 110, 111, 116, 32, 117, 110, 108, 105, 110, 107>>,
     \* "Could not stat"
     StatFailed |-> <<67, 111, 117, 108, 100, 32, 110, 111, 116, 32, 115, 116, 97, 116>>,
     \* "Could not statfs"
     StatfsFailed |-> <<67, 111, 117, 108, 100, 32, 110, 111, 116, 32, 115, 116, 97, 116, 102, 115>>,
     \* "Could not search B-tree"
     SearchFailed |-> <<67, 111, 117, 108, 100, 32, 110, 111, 116, 32, 115, 101, 97, 114, 99, 104, 32, 66, 45, 116, 114, 101, 101>>,
     \* "Could not lookup inode"
     InoLookupFailed |-> <<67, 111, 117, 108, 100, 32, 110, 111, 116, 32, 108, 111, 111, 107, 117, 112, 32, 105, 110, 111, 100, 101>>,
     \* "Could not get subvolume flags"
     SubvolGetflagsFailed |-> <<67, 111, 117, 108, 100, 32, 110, 111, 116, 32, 103, 101, 116, 32, 115, 117, 98, 118, 111, 108, 117, 109, 101, 32, 102, 108, 97, 103, 115>>,
     \* "Could not set subvolume flags"
     SubvolSetflagsFailed |-> <<67, 111, 117, 108, 100, 32, 110, 111, 116, 32, 115, 101, 116, 32, 115, 117, 98, 118, 111, 108, 117, 109, 101, 32, 102, 108, 97, 103, 115>>,
     \* "Could not create subvolume"
     SubvolCreateFailed |-> <<67, 111, 117, 108, 100, 32, 110, 111, 116, 32, 99, 114, 101, 97, 116, 101, 32, 115, 117, 98, 118, 111, 108, 117, 109, 101>>,
     \* "Could not create snapshot"
     SnapCreateFailed |-> <<67, 111, 117, 108, 100, 32, 110, 111, 116, 32, 99, 114, 101, 97, 116, 101, 32, 115, 110, 97, 112, 115, 104, 111, 116>>,
     \* "Could not destroy subvolume/snapshot"
     SnapDestroyFailed |-> <<67, 111, 117, 108, 100, 32, 110, 111, 116, 32, 100, 101, 115, 116, 114, 111, 121, 32, 115, 117, 98, 118, 111, 108, 117, 109, 101, 47, 115, 110, 97, 112, 115, 104, 111, 116>>,
     \* "Could not set default subvolume"
     DefaultSubvolFailed |-> <<67, 111, 117, 108, 100, 32, 110, 111, 116, 32, 115, 101, 116, 32, 100, 101, 102, 97, 117, 108, 116, 32, 115, 117, 98, 118, 111, 108, 117, 109, 101>>,
     \* "Could not sync filesystem"
     SyncFailed |-> <<67, 111, 117, 108, 100, 32, 110, 111, 116, 32, 115, 121, 110, 99, 32, 102, 105, 108, 101, 115, 121, 115, 116, 101, 109>>,
     \* "Could not start filesystem sync"
     StartSyncFailed |-> <<67, 111, 117, 108, 100, 32, 110, 111, 116, 32, 115, 116, 97, 114, 116, 32, 102, 105, 108, 101, 115, 121, 115, 116, 101, 109, 32, 115, 121, 110, 99>>,
     \* "Could not wait for filesystem sync"
     WaitSyncFailed |-> <<67, 111, 117, 108, 100, 32, 110, 111, 116, 32, 119, 97, 105, 116, 32, 102, 111, 114, 32, 102, 105, 108, 101, 115, 121, 115, 116, 101, 109, 32, 115, 121, 110, 99>>,
     \* "Could not get subvolume information with BTRFS_IOC_GET_SUBVOL_INFO"
     GetSubvolInfoFailed |-> <<67, 111, 117, 108, 100, 32, 110, 111, 116, 32, 103, 101, 116, 32, 115, 117, 98, 118, 111, 108, 117, 109, 101, 32, 105, 110, 102, 111, 114, 109, 97, 116, 105, 111, 110, 32, 119, 105, 116, 104, 32, 66, 84, 82, 70, 83, 95, 73, 79, 67, 95, 71, 69, 84, 95, 83, 85, 66, 86, 79, 76, 95, 73, 78, 70, 79>>,
     \* "Could not get rootref information with BTRFS_IOC_GET_SUBVOL_ROOTREF"
     GetSubvolRootrefFailed |-> <<67, 111, 117, 108, 100, 32, 110, 111, 116, 32, 103, 101, 116, 32, 114, 111, 111, 116, 114, 101, 102, 32, 105, 110, 102, 111, 114, 109, 97, 116, 105, 111, 110, 32, 119, 105, 116, 104, 32, 66, 84, 82, 70, 83, 95, 73, 79, 67, 95, 71, 69, 84, 95, 83, 85, 66, 86, 79, 76, 95, 82, 79, 79, 84, 82, 69, 70>>,
     \* "Could not resolve subvolume path with BTRFS_IOC_INO_LOOKUP_USER"
     InoLookupUserFailed |-> <<67, 111, 117, 108, 100, 32, 110, 111, 116, 32, 114, 101, 115, 111, 108, 118, 101, 32, 115, 117, 98, 118, 111, 108, 117, 109, 101, 32, 112, 97, 116, 104, 32, 119, 105, 116, 104, 32, 66, 84, 82, 70, 83, 95, 73, 79, 67, 95, 73, 78, 79, 95, 76, 79, 79, 75, 85, 80, 95, 85, 83, 69, 82>>,
     \* "Could not get filesystem information"
     FsInfoFailed |-> <<67, 111, 117, 108, 100, 32, 110, 111, 116, 32, 103, 101, 116, 32, 102, 105, 108, 101, 115, 121, 115, 116, 101, 109, 32, 105, 110, 102, 111, 114, 109, 97, 116, 105, 111, 110>>]

\* the arms of the match in try_from, in source order: pattern, result
arms ==
    <<<<bindings.BTRFS_UTIL_OK, "Ok">>,
      <<bindings.BTRFS_UTIL_ERROR_STOP_ITERATION, "StopIteration">>,
      <<bindings.BTRFS_UTIL_ERROR_NO_MEMORY, "NoMemory">>,
      <<bindings.BTRFS_UTIL_ERROR_INVALID_ARGUMENT, "InvalidArgument">>,
      <<bindings.BTRFS_UTIL_ERROR_NOT_BTRFS, "NotBtrfs">>,
      <<bindings.BTRFS_UTIL_ERROR_NOT_SUBVOLUME, "NotSubvolume">>,
      <<bindings.BTRFS_UTIL_ERROR_SUBVOLUME_NOT_FOUND, "SubvolumeNotFound">>,
      <<bindings.BTRFS_UTIL_ERROR_OPEN_FAILED, "OpenFailed">>,
      <<bindings.BTRFS_UTIL_ERROR_RMDIR_FAILED, "RmdirFailed">>,
      <<bindings.BTRFS_UTIL_ERROR_UNLINK_FAILED, "UnlinkFailed">>,
      <<bindings.BTRFS_UTIL_ERROR_STAT_FAILED, "StatFailed">>,
      <<bindings.BTRFS_UTIL_ERROR_STATFS_FAILED, "StatfsFailed">>,
      <<bindings.BTRFS_UTIL_ERROR_SEARCH_FAILED, "SearchFailed">>,
      <<bindings.BTRFS_UTIL_ERROR_INO_LOOKUP_FAILED, "InoLookupFailed">>,
      <<bindings.BTRFS_UTIL_ERROR_SUBVOL_GETFLAGS_FAILED, "SubvolGetflagsFailed">>,
      <<bindings.BTRFS_UTIL_ERROR_SUBVOL_SETFLAGS_FAILED, "SubvolSetflagsFailed">>,
      <<bindings.BTRFS_UTIL_ERROR_SUBVOL_CREATE_FAILED, "SubvolCreateFailed">>,
      <<bindings.BTRFS_UTIL_ERROR_SNAP_CREATE_FAILED, "SnapCreateFailed">>,
      <<bindings.BTRFS_UTIL_ERROR_SNAP_DESTROY_FAILED, "SnapDestroyFailed">>,
      <<bindings.BTRFS_UTIL_ERROR_DEFAULT_SUBVOL_FAILED, "DefaultSubvolFailed">>,
      <<bindings.BTRFS_UTIL_ERROR_SYNC_FAILED, "SyncFailed">>,
      <<bindings.BTRFS_UTIL_ERROR_START_SYNC_FAILED, "StartSyncFailed">>,
      <<bindings.BTRFS_UTIL_ERROR_WAIT_SYNC_FAILED, "WaitSyncFailed">>,
      <<bindings.BTRFS_UTIL_ERROR_GET_SUBVOL_INFO_FAILED, "GetSubvolInfoFailed">>,
      <<bindings.BTRFS_UTIL_ERROR_GET_SUBVOL_ROOTREF_FAILED, "GetSubvolRootrefFailed">>,
      <<bindings.BTRFS_UTIL_ERROR_INO_LOOKUP_USER_FAILED, "InoLookupUserFailed">>,
      <<bindings.BTRFS_UTIL_ERROR_FS_INFO_FAILED, "FsInfoFailed">>>>

(* ------------------------------------------------------------------------ *)
(* Results and glue errors                                                   *)
(* ------------------------------------------------------------------------ *)

Ok(val) == [tag |-> "Ok", val |-> val]

Err(e) == [tag |-> "Err", err |-> e]

\* the result slot of a caller whose call has not returned
NoResult == [tag |-> "None"]

UnknownErrno(errno) == [kind |-> "UnknownErrno", errno |-> errno]

NullPointerReceived == [kind |-> "NullPointerReceived"]

Utf8Error == [kind |-> "Utf8Error"]

\* glue_error!(e): hands the glue error back to the caller as the Err result
glue_error(e) == Err(e)

(* ------------------------------------------------------------------------ *)
(* TryFrom<LibErrorCode> for LibError                                        *)
(* ------------------------------------------------------------------------ *)

\* the indexes of the arms whose pattern is errno
matching(errno) == {i \in 1 .. Len(arms) : arms[i][1] = errno}

\* a faulty variant: the range guard is off by one (errno >= 26)
try_from_guard_off_by_one(errno) ==
    IF errno >= 26
    THEN glue_error(UnknownErrno(errno))
    ELSE IF matching(errno) # {}
         THEN Ok(arms[CHOOSE i \in matching(errno) :
                        \A j \in matching(errno) : i <= j][2])
         ELSE glue_error(UnknownErrno(errno))

\* a faulty variant: an unknown code falls back to a default variant
try_from_default(errno) ==
    IF matching(errno) # {}
    THEN Ok(arms[CHOOSE i \in matching(errno) :
                   \A j \in matching(errno) : i <= j][2])
    ELSE Ok("Ok")

\* a faulty variant: the arms of NotBtrfs and NotSubvolume give each other's variant
try_from_swapped_arms(errno) ==
    IF errno > 26
    THEN glue_error(UnknownErrno(errno))
    ELSE IF errno = bindings.BTRFS_UTIL_ERROR_NOT_BTRFS
         THEN Ok("NotSubvolume")
         ELSE IF errno = bindings.BTRFS_UTIL_ERROR_NOT_SUBVOLUME
              THEN Ok("NotBtrfs")
              ELSE IF matching(errno) # {}
                   THEN Ok(arms[CHOOSE i \in matching(errno) :
                                  \A j \in matching(errno) : i <= j][2])
                   ELSE glue_error(UnknownErrno(errno))

\* a faulty variant: the arm of the last code, FS_INFO_FAILED, is missing
try_from_no_last_arm(errno) ==
    IF errno > 26
    THEN glue_error(UnknownErrno(errno))
    ELSE IF matching(errno) # {} /\ errno # bindings.BTRFS_UTIL_ERROR_FS_INFO_FAILED
         THEN Ok(arms[CHOOSE i \in matching(errno) :
                        \A j \in matching(errno) : i <= j][2])
         ELSE glue_error(UnknownErrno(errno))

\* try_from(errno): the guard, then the first arm that matches, then the
\* wildcard arm
try_from(errno) ==
    IF errno > 26
    THEN glue_error(UnknownErrno(errno))
    ELSE IF matching(errno) # {}
         THEN Ok(arms[CHOOSE i \in matching(errno) :
                        \A j \in matching(errno) : i <= j][2])
         ELSE glue_error(UnknownErrno(errno))

(* ------------------------------------------------------------------------ *)
(* C strings and UTF-8                                                       *)
(* ------------------------------------------------------------------------ *)

NULL == 0

IsCont(b) == b >= 128 /\ b <= 191

\* the length of the well-formed UTF-8 sequence that starts bytes, 0 if none
SeqLenAt(bytes) ==
    LET n  == Len(bytes)
        b1 == bytes[1]
    IN  IF b1 < 128 THEN 1
        ELSE IF b1 >= 194 /\ b1 <= 223
             THEN IF n >= 2 /\ IsCont(bytes[2]) THEN 2 ELSE 0
        ELSE IF b1 >= 224 /\ b1 <= 239
             THEN IF /\ n >= 3
                     /\ IsCont(bytes[2])
                     /\ IsCont(bytes[3])
                     /\ (b1 = 224 => bytes[2] >= 160)
                     /\ (b1 = 237 => bytes[2] <= 159)
                  THEN 3 ELSE 0
        ELSE IF b1 >= 240 /\ b1 <= 244
             THEN IF /\ n >= 4
                     /\ IsCont(bytes[2])
                     /\ IsCont(bytes[3])
                     /\ IsCont(bytes[4])
                     /\ (b1 = 240 => bytes[2] >= 144)
                     /\ (b1 = 244 => bytes[2] <= 143)
                  THEN 4 ELSE 0
        ELSE 0

RECURSIVE Utf8Valid(_)
\* core::str::from_utf8's check: bytes is a sequence of well-formed sequences
Utf8Valid(bytes) ==
    IF bytes = <<>> THEN TRUE
    ELSE LET k == SeqLenAt(bytes)
         IN  IF k = 0 THEN FALSE
             ELSE Utf8Valid(SubSeq(bytes, k + 1, Len(bytes)))

\* a faulty variant: the bytes are taken as text without validation
to_str_unchecked(cstr) == Ok(cstr)

\* CStr::to_str
to_str(cstr) == IF Utf8Valid(cstr) THEN Ok(cstr) ELSE Err(Utf8Error)

RECURSIVE strlen(_)
\* the number of bytes before the first NUL of mem
strlen(mem) == IF mem = <<>> \/ mem[1] = 0 THEN 0 ELSE 1 + strlen(Tail(mem))

\* a faulty variant: the last byte before the terminator is dropped
from_bytes_short(mem) == SubSeq(mem, 1, IF strlen(mem) > 0 THEN strlen(mem) - 1 ELSE 0)

\* the bytes CStr::from_ptr wraps: those before the NUL terminator
from_bytes(mem) == SubSeq(mem, 1, strlen(mem))

(* ------------------------------------------------------------------------ *)
(* State                                                                     *)
(* ------------------------------------------------------------------------ *)

VARIABLES
    pc,           \* per caller: "idle", "L130", "L133", "L135", "L136", "done", "crashed"
    op,           \* per caller: the function it called last, "try_from" or "strerror"
    self,         \* per caller: the receiver of strerror
    errno,        \* per caller: try_from's parameter, strerror's local
    err_str_ptr,  \* per caller: strerror's local
    cstr,         \* per caller: strerror's local, the bytes the CStr wraps
    result,       \* per caller: what the call returned
    fault         \* the one code for which the native library misbehaves

vars == <<pc, op, self, errno, err_str_ptr, cstr, result, fault>>

(* ------------------------------------------------------------------------ *)
(* The native library                                                        *)
(* ------------------------------------------------------------------------ *)

\* the library behaves as upstream for every code
NoFault == [code |-> -1, null |-> FALSE, bytes |-> <<>>]

\* what a misbehaving library may answer: no string, an empty string, bytes
\* that are not UTF-8 (a stray 0xFF 0xFE, a truncated sequence), other text
FaultResponses ==
    {[null |-> TRUE,  bytes |-> <<>>],
     [null |-> FALSE, bytes |-> <<>>],
     [null |-> FALSE, bytes |-> <<255, 254>>],
     [null |-> FALSE, bytes |-> <<72, 195>>],
     [null |-> FALSE, bytes |-> <<195, 169>>],
     [null |-> FALSE, bytes |-> <<72, 105>>]}

Faults(codes) ==
    {NoFault} \cup
    {[code |-> c, null |-> r.null, bytes |-> r.bytes] :
        c \in codes, r \in FaultResponses}

\* upstream's error_messages[err]: the text the enumeration mirrors
error_messages(err) == Display[CHOOSE v \in LibError : Discriminant[v] = err]

\* the address of the library's static string for err
Addr(err) == err + 1

\* btrfs_util_strerror(err): NULL for a code the library does not know
btrfs_util_strerror(err) ==
    IF fault.code = err
    THEN IF fault.null THEN NULL ELSE Addr(err)
    ELSE IF err > 26 THEN NULL ELSE Addr(err)

\* the NUL-terminated bytes at a non-null address of the library
Mem(addr) ==
    IF fault.code = addr - 1
    THEN fault.bytes \o <<0>>
    ELSE error_messages(addr - 1) \o <<0>>

\* reading through a null pointer is undefined: the process dies, or the
\* read yields whatever bytes happen to be there
NullDeref ==
    {[segv |-> TRUE,  bytes |-> <<>>],
     [segv |-> FALSE, bytes |-> <<>>],
     [segv |-> FALSE, bytes |-> <<255>>]}

(* ------------------------------------------------------------------------ *)
(* Operations                                                                *)
(* ------------------------------------------------------------------------ *)

\* "as LibErrorCode": the cast of a discriminant to u32 keeps a value that is
\* not negative and wraps a negative one, which no declared code is
as_LibErrorCode(x) == IF x >= 0 THEN x ELSE x + 2147483647 + 2147483647 + 2

\* LibError::try_from(errno), called by p
call_try_from(p, c) ==
    /\ pc[p] \in {"idle", "done"}
    /\ pc' = [pc EXCEPT ![p] = "done"]
    /\ op' = [op EXCEPT ![p] = "try_from"]
    /\ self' = [self EXCEPT ![p] = "-"]
    /\ errno' = [errno EXCEPT ![p] = c]
    /\ err_str_ptr' = [err_str_ptr EXCEPT ![p] = NULL]
    /\ cstr' = [cstr EXCEPT ![p] = <<>>]
    /\ result' = [result EXCEPT ![p] = try_from(c)]
    /\ UNCHANGED fault

\* a faulty variant: the library is always asked about code 0
strerror_L128_zero(p, v) ==
    /\ pc[p] \in {"idle", "done"}
    /\ pc' = [pc EXCEPT ![p] = "L130"]
    /\ op' = [op EXCEPT ![p] = "strerror"]
    /\ self' = [self EXCEPT ![p] = v]
    /\ errno' = [errno EXCEPT ![p] = 0]
    /\ err_str_ptr' = [err_str_ptr EXCEPT ![p] = NULL]
    /\ cstr' = [cstr EXCEPT ![p] = <<>>]
    /\ result' = [result EXCEPT ![p] = NoResult]
    /\ UNCHANGED fault

\* v.strerror(), called by p: let errno = self.clone() as LibErrorCode
strerror_L128(p, v) ==
    /\ pc[p] \in {"idle", "done"}
    /\ pc' = [pc EXCEPT ![p] = "L130"]
    /\ op' = [op EXCEPT ![p] = "strerror"]
    /\ self' = [self EXCEPT ![p] = v]
    /\ errno' = [errno EXCEPT ![p] = as_LibErrorCode(Discriminant[v])]
    /\ err_str_ptr' = [err_str_ptr EXCEPT ![p] = NULL]
    /\ cstr' = [cstr EXCEPT ![p] = <<>>]
    /\ result' = [result EXCEPT ![p] = NoResult]
    /\ UNCHANGED fault

\* a faulty variant: errno is one static shared by the callers, the first caller's
strerror_L130_static(p) ==
    /\ pc[p] = "L130"
    /\ err_str_ptr' = [err_str_ptr EXCEPT ![p] = btrfs_util_strerror(errno[1])]
    /\ pc' = [pc EXCEPT ![p] = "L133"]
    /\ UNCHANGED <<op, self, errno, cstr, result, fault>>

\* err_str_ptr = bindings::btrfs_util_strerror(errno)
strerror_L130(p) ==
    /\ pc[p] = "L130"
    /\ err_str_ptr' = [err_str_ptr EXCEPT ![p] = btrfs_util_strerror(errno[p])]
    /\ pc' = [pc EXCEPT ![p] = "L133"]
    /\ UNCHANGED <<op, self, errno, cstr, result, fault>>

\* a faulty variant: the null check is missing
strerror_L133_unchecked(p) ==
    /\ pc[p] = "L133"
    /\ pc' = [pc EXCEPT ![p] = "L135"]
    /\ UNCHANGED <<op, self, errno, err_str_ptr, cstr, result, fault>>

\* glue_error!(err_str_ptr.is_null(), GlueError::NullPointerReceived)
strerror_L133(p) ==
    /\ pc[p] = "L133"
    /\ IF err_str_ptr[p] = NULL
       THEN /\ result' = [result EXCEPT ![p] = glue_error(NullPointerReceived)]
            /\ pc' = [pc EXCEPT ![p] = "done"]
       ELSE /\ pc' = [pc EXCEPT ![p] = "L135"]
            /\ UNCHANGED result
    /\ UNCHANGED <<op, self, errno, err_str_ptr, cstr, fault>>

\* a faulty variant: the CStr misses the last byte of the string
strerror_L135_short(p) ==
    /\ pc[p] = "L135"
    /\ \E r \in IF err_str_ptr[p] = NULL
                THEN NullDeref
                ELSE {[segv |-> FALSE,
                       bytes |-> from_bytes_short(Mem(err_str_ptr[p]))]} :
          IF r.segv
          THEN /\ pc' = [q \in DOMAIN pc |-> "crashed"]
               /\ UNCHANGED cstr
          ELSE /\ pc' = [pc EXCEPT ![p] = "L136"]
               /\ cstr' = [cstr EXCEPT ![p] = r.bytes]
    /\ UNCHANGED <<op, self, errno, err_str_ptr, result, fault>>

\* let cstr: &CStr = unsafe { CStr::from_ptr(err_str_ptr) }
strerror_L135(p) ==
    /\ pc[p] = "L135"
    /\ \E r \in IF err_str_ptr[p] = NULL
                THEN NullDeref
                ELSE {[segv |-> FALSE,
                       bytes |-> from_bytes(Mem(err_str_ptr[p]))]} :
          IF r.segv
          THEN /\ pc' = [q \in DOMAIN pc |-> "crashed"]
               /\ UNCHANGED cstr
          ELSE /\ pc' = [pc EXCEPT ![p] = "L136"]
               /\ cstr' = [cstr EXCEPT ![p] = r.bytes]
    /\ UNCHANGED <<op, self, errno, err_str_ptr, result, fault>>

\* a faulty variant: the bytes are returned as text without the UTF-8 check
strerror_L136_unchecked(p) ==
    /\ pc[p] = "L136"
    /\ result' = [result EXCEPT ![p] = to_str_unchecked(cstr[p])]
    /\ pc' = [pc EXCEPT ![p] = "done"]
    /\ UNCHANGED <<op, self, errno, err_str_ptr, cstr, fault>>

\* match cstr.to_str() { Ok(val) => Ok(val), Err(e) => glue_error!(Utf8Error(e)) }
strerror_L136(p) ==
    /\ pc[p] = "L136"
    /\ result' = [result EXCEPT ![p] =
                    IF to_str(cstr[p]).tag = "Ok"
                    THEN Ok(to_str(cstr[p]).val)
                    ELSE glue_error(Utf8Error)]
    /\ pc' = [pc EXCEPT ![p] = "done"]
    /\ UNCHANGED <<op, self, errno, err_str_ptr, cstr, fault>>

(* ------------------------------------------------------------------------ *)
(* Specifications                                                            *)
(* ------------------------------------------------------------------------ *)

\* the codes the enumeration declares
DeclaredCodes == {Discriminant[v] : v \in LibError}

InitWith(callers, faults) ==
    /\ pc = [p \in callers |-> "idle"]
    /\ op = [p \in callers |-> "-"]
    /\ self = [p \in callers |-> "-"]
    /\ errno = [p \in callers |-> 0]
    /\ err_str_ptr = [p \in callers |-> NULL]
    /\ cstr = [p \in callers |-> <<>>]
    /\ result = [p \in callers |-> NoResult]
    /\ fault \in faults

\* one caller, every variant, every code of Codes, a fault at any declared code
Init == InitWith({1}, Faults(DeclaredCodes))

Next ==
    \E p \in DOMAIN pc :
        \/ \E c \in Codes : call_try_from(p, c)
        \/ \E v \in LibError : strerror_L128(p, v)
        \/ strerror_L130(p)
        \/ strerror_L133(p)
        \/ strerror_L135(p)
        \/ strerror_L136(p)

Spec == Init /\ [][Next]_vars

\* NProcs callers that interleave their calls, over a few codes and variants
ConcCodes == {0, 4, 26, 27, 2147483647}

ConcVariants == {"Ok", "NotSubvolume", "FsInfoFailed"}

InitConc ==
    InitWith(1 .. NProcs, Faults({Discriminant[v] : v \in ConcVariants}))

NextConc ==
    \E p \in DOMAIN pc :
        \/ \E c \in ConcCodes : call_try_from(p, c)
        \/ \E v \in ConcVariants : strerror_L128(p, v)
        \/ strerror_L130(p)
        \/ strerror_L133(p)
        \/ strerror_L135(p)
        \/ strerror_L136(p)

SpecConc == InitConc /\ [][NextConc]_vars

\* two callers that ask a library that behaves as upstream for descriptions
InitDescribe == InitWith({1, 2}, {NoFault})

NextDescribe ==
    \E p \in DOMAIN pc :
        \/ \E v \in LibError : strerror_L128(p, v)
        \/ strerror_L130(p)
        \/ strerror_L133(p)
        \/ strerror_L135(p)
        \/ strerror_L136(p)

SpecDescribe == InitDescribe /\ [][NextDescribe]_vars

(* ------------------------------------------------------------------------ *)
(* Properties                                                                *)
(* ------------------------------------------------------------------------ *)

\* p's call of f has returned
Returned(p, f) == pc[p] = "done" /\ op[p] = f

\* the code the declaration pins to v, as strerror hands it to the library
code_of(v) == as_LibErrorCode(Discriminant[v])

\* the text the native library holds for code c
NativeText(c) == IF fault.code = c THEN fault.bytes ELSE error_messages(c)

\* C1: for every code c in 0..26, from_code(c) succeeds and returns the one
\* variant whose declared constant is c
C1_FromCodeInRange ==
    \A p \in DOMAIN pc :
        (Returned(p, "try_from") /\ errno[p] \in 0 .. 26) =>
            /\ result[p].tag = "Ok"
            /\ Discriminant[result[p].val] = errno[p]
            /\ Cardinality({v \in LibError : Discriminant[v] = errno[p]}) = 1

C1_Witness ==
    \E p \in DOMAIN pc :
        /\ Returned(p, "try_from")
        /\ errno[p] = 26
        /\ result[p].tag = "Ok"

\* C2: for every code c outside 0..26, from_code(c) fails with
\* UnknownErrno(c), carrying the c it was given, and returns no variant
C2_FromCodeOutOfRange ==
    \A p \in DOMAIN pc :
        (Returned(p, "try_from") /\ errno[p] \notin 0 .. 26) =>
            /\ result[p].tag = "Err"
            /\ result[p].err.kind = "UnknownErrno"
            /\ result[p].err.errno = errno[p]

C2_Witness ==
    \E p \in DOMAIN pc :
        /\ Returned(p, "try_from")
        /\ errno[p] = 1000
        /\ result[p].tag = "Err"

\* C3: round trip: for every variant v, from_code(code_of(v)) is Ok(v)
C3_RoundTrip ==
    \A p \in DOMAIN pc :
        Returned(p, "try_from") =>
            \A v \in LibError :
                errno[p] = code_of(v) =>
                    result[p].tag = "Ok" /\ result[p].val = v

C3_Witness ==
    \E p \in DOMAIN pc :
        /\ Returned(p, "try_from")
        /\ errno[p] = code_of("NotSubvolume")
        /\ result[p].tag = "Ok"
        /\ result[p].val = "NotSubvolume"

C5_NeverAborts ==
    \A p \in DOMAIN pc :
        /\ pc[p] # "crashed"
        /\ pc[p] = "done" =>
               \/ result[p].tag = "Ok"
               \/ /\ result[p].tag = "Err"
                  /\ result[p].err.kind \in
                         {"UnknownErrno", "NullPointerReceived", "Utf8Error"}

C5_Witness ==
    \E p \in DOMAIN pc :
        /\ Returned(p, "strerror")
        /\ fault.code = code_of(self[p])
        /\ fault.null
        /\ result[p].tag = "Err"

\* C6: describe(v) fails with NullPointerReceived when the native lookup
\* gives a null pointer, and no caller gets past CStr::from_ptr with a null
\* pointer; it fails with Utf8Error when the bytes are not UTF-8; otherwise
\* it returns exactly the text the library holds for code_of(v)
C6_Describe ==
    \A p \in DOMAIN pc :
        /\ pc[p] \in {"L136", "crashed"} => err_str_ptr[p] # NULL
        /\ Returned(p, "strerror") =>
               IF btrfs_util_strerror(code_of(self[p])) = NULL
               THEN /\ result[p].tag = "Err"
                    /\ result[p].err.kind = "NullPointerReceived"
                    /\ cstr[p] = <<>>
               ELSE IF ~Utf8Valid(NativeText(code_of(self[p])))
                    THEN /\ result[p].tag = "Err"
                         /\ result[p].err.kind = "Utf8Error"
                    ELSE /\ result[p].tag = "Ok"
                         /\ result[p].val = NativeText(code_of(self[p]))

C6_Witness ==
    \E p \in DOMAIN pc :
        /\ Returned(p, "strerror")
        /\ err_str_ptr[p] # NULL
        /\ result[p].tag = "Err"
        /\ result[p].err.kind = "Utf8Error"

\* C7, as stated: an Ok result of describe holds a non-empty, valid string
C7_Original ==
    \A p \in DOMAIN pc :
        (Returned(p, "strerror") /\ result[p].tag = "Ok") =>
            result[p].val # <<>> /\ Utf8Valid(result[p].val)

\* C7, amended: an Ok result of describe holds a validly encoded string,
\* which is non-empty whenever the string the native library gave is
C7_OkIsValidText ==
    \A p \in DOMAIN pc :
        (Returned(p, "strerror") /\ result[p].tag = "Ok") =>
            /\ Utf8Valid(result[p].val)
            /\ NativeText(code_of(self[p])) # <<>> => result[p].val # <<>>

C7_Witness ==
    \E p \in DOMAIN pc :
        /\ Returned(p, "strerror")
        /\ fault.code = code_of(self[p])
        /\ result[p].tag = "Ok"
        /\ result[p].val = <<195, 169>>

\* C8: the codes and the variants are in bijection: no two variants share a
\* code, every code in 0..26 is that of a variant, no variant has a code
\* outside 0..26, and from_code gives a variant for exactly those codes
C8_Bijection ==
    /\ \A v, w \in LibError : Discriminant[v] = Discriminant[w] => v = w
    /\ DeclaredCodes = 0 .. 26
    /\ Cardinality(LibError) = 27
    /\ \A p \in DOMAIN pc :
           Returned(p, "try_from") =>
               /\ result[p].tag = "Ok" <=> errno[p] \in 0 .. 26
               /\ result[p].tag = "Ok" => Discriminant[result[p].val] = errno[p]

C8_Witness ==
    \E p \in DOMAIN pc :
        /\ Returned(p, "try_from")
        /\ errno[p] = 0
        /\ result[p].tag = "Ok"
        /\ result[p].val = "Ok"

\* what a call gives when it is the only call made
Isolated(f, v, c) ==
    IF f = "try_from"
    THEN IF c \in DeclaredCodes
         THEN Ok(CHOOSE w \in LibError : Discriminant[w] = c)
         ELSE Err(UnknownErrno(c))
    ELSE IF btrfs_util_strerror(code_of(v)) = NULL
         THEN Err(NullPointerReceived)
         ELSE IF Utf8Valid(NativeText(code_of(v)))
              THEN Ok(NativeText(code_of(v)))
              ELSE Err(Utf8Error)

\* the locals of caller p
Locals(p) == <<pc[p], op[p], self[p], errno[p], err_str_ptr[p], cstr[p], result[p]>>

\* C9: the calls keep no state: in every interleaving, a step of one caller
\* changes nothing of another caller and nothing of the library, and a call
\* that returns gives what the same call gives in isolation
C9_Stateless ==
    [][/\ fault' = fault
       /\ \A p, q \in DOMAIN pc :
              (p # q /\ Locals(p)' # Locals(p)) => Locals(q)' = Locals(q)
       /\ \A p \in DOMAIN pc :
              pc'[p] = "done" =>
                  result'[p] = Isolated(op'[p], self'[p], errno'[p])]_vars

C9_Witness ==
    \E p, q \in DOMAIN pc :
        /\ p # q
        /\ pc[p] = "L133"
        /\ Returned(q, "strerror")
        /\ self[p] # self[q]
        /\ result[q].tag = "Ok"

\* C10: with the library's own texts, describe gives a non-empty string for
\* the success variant and for every other variant, and two different
\* variants never get the same description
C10_DistinctDescriptions ==
    \A p, q \in DOMAIN pc :
        Returned(p, "strerror") =>
            /\ result[p].tag = "Ok"
            /\ result[p].val # <<>>
            /\ (Returned(q, "strerror") /\ self[p] # self[q]) =>
                   (result[q].tag = "Ok" /\ result[p].val # result[q].val)

C10_Witness ==
    \E p, q \in DOMAIN pc :
        /\ Returned(p, "strerror")
        /\ Returned(q, "strerror")
        /\ self[p] = "Ok"
        /\ self[q] = "FsInfoFailed"
        /\ result[p].tag = "Ok"
        /\ result[q].tag = "Ok"
====
